---- MODULE Spec2Model ----
(***************************************************************************)
(* Model of the detection evaluator in src/evaluate_custom_metric.py:      *)
(* box geometry, the IoU / IoP overlap metrics, the greedy matcher and the *)
(* precision-recall integration of evaluate_predictions_for_class, and the *)
(* per-category driver main; and of the batch prefetcher in                *)
(* src/datasets/data_prefetcher.py.                                        *)
(*                                                                         *)
(* Numbers.  Box coordinates and scores are drawn from integers.  Every    *)
(* other number the evaluator computes is a quotient of polynomials in the *)
(* constant eps = 1e-8 with integer coefficients, and is kept exactly in   *)
(* that form: a polynomial is the sequence of its coefficients             *)
(* <<a0, a1, ...>> = a0 + a1*eps + ..., a number is a record [n, d] = n/d  *)
(* with d > 0.  The arithmetic is that of the reals, not of IEEE doubles:  *)
(* rounding is not modelled.                                               *)
(***************************************************************************)
EXTENDS Integers, Sequences, FiniteSets, TLC

VARIABLES frame, main, workers, prefetcher

vars == <<frame, main, workers, prefetcher>>

(***************************************************************************)
(* Bounds of the model                                                     *)
(***************************************************************************)
MaxPreds == 2

Max(a, b) == IF a >= b THEN a ELSE b
Min(a, b) == IF a <= b THEN a ELSE b

SeqsUpTo(S, n) == UNION {[1..k -> S] : k \in 0..n}

\* the longest list of outcomes handed to calculate_ap under SpecAp
MaxOutcomes == 3

\* the longest loader given to a data_prefetcher
MaxBatches == 3

\* the calls of next() made after the loader is exhausted
MaxExtraCalls == 2

(***************************************************************************)
(* Exact arithmetic over polynomials in eps                                *)
(***************************************************************************)
\* eps = 1e-8 = 1 / EpsDen
EpsDen == 100000000

PCoef(p, i) == IF i <= Len(p) THEN p[i] ELSE 0

RECURSIVE PAddTo(_, _, _)
\* the first i coefficients of p + q
PAddTo(p, q, i) ==
    IF i = 0 THEN <<>> ELSE Append(PAddTo(p, q, i - 1), PCoef(p, i) + PCoef(q, i))

PAdd(p, q) == PAddTo(p, q, Max(Len(p), Len(q)))

RECURSIVE PNegTo(_, _)
PNegTo(p, i) == IF i = 0 THEN <<>> ELSE Append(PNegTo(p, i - 1), 0 - p[i])

PNeg(p) == PNegTo(p, Len(p))

PSub(p, q) == PAdd(p, PNeg(q))

RECURSIVE PConv(_, _, _, _)
\* coefficient k of p * q: the sum over j in 1..i of p[j] * q[k + 1 - j]
PConv(p, q, k, i) ==
    IF i = 0 THEN 0
    ELSE PConv(p, q, k, i - 1)
         + (IF k + 1 - i >= 1 /\ k + 1 - i <= Len(q) THEN p[i] * q[k + 1 - i] ELSE 0)

RECURSIVE PMulTo(_, _, _)
\* the first k coefficients of p * q
PMulTo(p, q, k) ==
    IF k = 0 THEN <<>> ELSE Append(PMulTo(p, q, k - 1), PConv(p, q, k, Len(p)))

PMul(p, q) == PMulTo(p, q, Len(p) + Len(q) - 1)

Abs(a) == IF a < 0 THEN 0 - a ELSE a

RECURSIVE PLead(_, _)
\* the first non-zero coefficient from index i on, 0 when there is none
PLead(p, i) ==
    IF i > Len(p) THEN 0
    ELSE IF p[i] # 0 THEN p[i]
    ELSE PLead(p, i + 1)

\* The sign of p at eps = 1/EpsDen.  With every coefficient below EpsDen \div 2
\* in absolute value the terms after the first non-zero one sum to less than
\* that term, so its sign is the sign of the polynomial; larger coefficients
\* are outside what this arithmetic decides and give no sign ("overflow").
PSign(p) ==
    IF \E i \in 1..Len(p) : Abs(p[i]) >= EpsDen \div 2 THEN "overflow"
    ELSE LET a == PLead(p, 1) IN IF a > 0 THEN 1 ELSE IF a < 0 THEN 0 - 1 ELSE 0

RECURSIVE GCD(_, _)
GCD(a, b) == IF b = 0 THEN a ELSE GCD(b, a % b)

RECURSIVE PContent(_, _)
\* the greatest common divisor of the first i coefficients of p
PContent(p, i) == IF i = 0 THEN 0 ELSE GCD(Abs(p[i]), PContent(p, i - 1))

RECURSIVE PDivTo(_, _, _)
\* the first i coefficients of p, each divided by g
PDivTo(p, g, i) ==
    IF i = 0 THEN <<>>
    ELSE Append(PDivTo(p, g, i - 1),
                IF p[i] >= 0 THEN p[i] \div g ELSE 0 - ((0 - p[i]) \div g))

\* the quotient n / d of two polynomials, d # 0, with the common integer
\* factor of their coefficients cancelled
Frac(n, d) ==
    LET g == GCD(PContent(n, Len(n)), PContent(d, Len(d)))
    IN  [n |-> PDivTo(n, g, Len(n)), d |-> PDivTo(d, g, Len(d))]

QInt(a) == Frac(<<a>>, <<1>>)

\* the literal 1e-8
EPS == Frac(<<0, 1>>, <<1>>)

QAdd(a, b) == Frac(PAdd(PMul(a.n, b.d), PMul(b.n, a.d)), PMul(a.d, b.d))

QSub(a, b) == Frac(PSub(PMul(a.n, b.d), PMul(b.n, a.d)), PMul(a.d, b.d))

QMul(a, b) == Frac(PMul(a.n, b.n), PMul(a.d, b.d))

\* a / b for b # 0, the denominator kept positive
QDiv(a, b) ==
    IF PSign(b.n) > 0 THEN Frac(PMul(a.n, b.d), PMul(a.d, b.n))
    ELSE Frac(PNeg(PMul(a.n, b.d)), PNeg(PMul(a.d, b.n)))

\* the sign of a - b
QCmp(a, b) == PSign(PSub(PMul(a.n, b.d), PMul(b.n, a.d)))

QGt(a, b) == QCmp(a, b) > 0

QEq(a, b) == QCmp(a, b) = 0

QLe(a, b) == QCmp(a, b) <= 0

QMax(a, b) == IF QGt(b, a) THEN b ELSE a

(***************************************************************************)
(* Box geometry.  A box is <<x, y, w, h>>: box[1..4] here is box[0..3] in  *)
(* the source.                                                             *)
(***************************************************************************)
calculate_area(box) ==
    IF box[3] < 0 \/ box[4] < 0 THEN 0 ELSE box[3] * box[4]

\* the product of the two extents without the max(..., 0.) of lines 19-20
calculate_intersection_unclamped(box_a, box_b) ==
    (Min(box_a[1] + box_a[3], box_b[1] + box_b[3]) - Max(box_a[1], box_b[1]))
        * (Min(box_a[2] + box_a[4], box_b[2] + box_b[4]) - Max(box_a[2], box_b[2]))

calculate_intersection(box_a, box_b) ==
    LET box_a_xyxy == <<box_a[1], box_a[2], box_a[1] + box_a[3], box_a[2] + box_a[4]>>
        box_b_xyxy == <<box_b[1], box_b[2], box_b[1] + box_b[3], box_b[2] + box_b[4]>>
        ix1 == Max(box_a_xyxy[1], box_b_xyxy[1])
        iy1 == Max(box_a_xyxy[2], box_b_xyxy[2])
        ix2 == Min(box_a_xyxy[3], box_b_xyxy[3])
        iy2 == Min(box_a_xyxy[4], box_b_xyxy[4])
        iw == Max(ix2 - ix1, 0)
        ih == Max(iy2 - iy1, 0)
    IN  iw * ih

(***************************************************************************)
(* Overlap metrics                                                         *)
(***************************************************************************)
KnownMetrics == {"iou", "iop"}

\* the union taken as the sum of the two areas
IoUSumOfAreas(pred_box, gt_box) ==
    LET intersection == calculate_intersection(pred_box, gt_box)
        union == calculate_area(pred_box) + calculate_area(gt_box)
    IN  QDiv(QInt(intersection), QAdd(QInt(union), EPS))

\* intersections / (unions + 1e-8)
\* the overlap coefficient: the smaller of the two areas as the denominator
IoUOverSmaller(pred_box, gt_box) ==
    LET intersection == calculate_intersection(pred_box, gt_box)
    IN  QDiv(QInt(intersection),
             QAdd(QInt(Min(calculate_area(pred_box), calculate_area(gt_box))),
                  EPS))

IoU(pred_box, gt_box) ==
    LET intersection == calculate_intersection(pred_box, gt_box)
        union == calculate_area(pred_box) + calculate_area(gt_box) - intersection
    IN  QDiv(QInt(intersection), QAdd(QInt(union), EPS))

\* intersections / (pred_area + 1e-8)
IoP(pred_box, gt_box) ==
    LET intersection == calculate_intersection(pred_box, gt_box)
    IN  QDiv(QInt(intersection), QAdd(QInt(calculate_area(pred_box)), EPS))

\* the metrics array of one prediction against its image's ground truth
Metrics(metric, pred_box, gt_list) ==
    [i \in 1..Len(gt_list) |->
        IF metric = "iou" THEN IoU(pred_box, gt_list[i].bbox)
        ELSE IoP(pred_box, gt_list[i].bbox)]

(***************************************************************************)
(* One invocation of evaluate_predictions_for_class: a frame holds its     *)
(* arguments, its locals and its position.  pc is "entry" before line 41,  *)
(* "loop" at the head of the for loop of line 57 with k predictions        *)
(* already labelled, "done" after the return and "raised" after the        *)
(* ValueError of line 80.  ground_truths maps every image id to its list   *)
(* of boxes, the empty list for an image the dict has no key for (the      *)
(* function treats the two alike).  sorted_preds holds references to the   *)
(* prediction objects: indices into predictions.  ret is <<>> until a      *)
(* value is returned and <<ap>> after.                                     *)
(***************************************************************************)
Images == {1, 2}

NoBoxes == [img \in Images |-> <<>>]

\* the memory of a frame before any call has used it
EmptySlot ==
    [ground_truths |-> NoBoxes, predictions |-> <<>>,
     metric |-> "iou", iou_threshold |-> QInt(0),
     pc |-> "idle", gt_by_img |-> NoBoxes, total_gt_count |-> 0,
     sorted_preds |-> <<>>, k |-> 0, tp |-> <<>>, fp |-> <<>>, ret |-> <<>>]

\* line 34: the call binds the arguments; the locals hold whatever the slot
\* held until lines 41-55 assign them
Enter(slot, ground_truths, predictions, metric, iou_threshold) ==
    [slot EXCEPT !.ground_truths = ground_truths, !.predictions = predictions,
                 !.metric = metric, !.iou_threshold = iou_threshold,
                 !.pc = "entry", !.ret = <<>>]

Call(ground_truths, predictions, metric, iou_threshold) ==
    Enter(EmptySlot, ground_truths, predictions, metric, iou_threshold)

\* lines 41-44: a fresh record per ground-truth box, not yet detected
GroupGt(ground_truths) ==
    [img \in Images |->
        [i \in 1..Len(ground_truths[img]) |->
            [bbox |-> ground_truths[img][i], detected |-> FALSE]]]

RECURSIVE SumLen(_, _)
SumLen(ground_truths, imgs) ==
    IF imgs = {} THEN 0
    ELSE LET img == CHOOSE i \in imgs : TRUE
         IN  Len(ground_truths[img]) + SumLen(ground_truths, imgs \ {img})

\* line 52
TotalGtCount(ground_truths) == SumLen(ground_truths, Images)

\* the place a prediction takes in sorted(..., reverse=True): behind every
\* higher score and behind the equal scores that precede it in the input
Rank(predictions, i) ==
    Cardinality({j \in 1..Len(predictions) :
        \/ predictions[j].score > predictions[i].score
        \/ predictions[j].score = predictions[i].score /\ j < i}) + 1

\* no sort: the predictions in input order
InputOrder(predictions) == [r \in 1..Len(predictions) |-> r]

\* an ascending sort that is then reversed: equal scores come out in
\* reverse input order
SortThenReverse(predictions) ==
    [r \in 1..Len(predictions) |->
        CHOOSE i \in 1..Len(predictions) :
            Cardinality({j \in 1..Len(predictions) :
                \/ predictions[j].score > predictions[i].score
                \/ predictions[j].score = predictions[i].score /\ j > i}) + 1 = r]

\* line 55
SortPreds(predictions) ==
    [r \in 1..Len(predictions) |->
        CHOOSE i \in 1..Len(predictions) : Rank(predictions, i) = r]

\* the detected flags are not reset when the slot holds records of the same boxes
SetupKeepFlags(f) ==
    [f EXCEPT !.pc = "loop",
              !.gt_by_img =
                  IF \A img \in Images :
                        /\ Len(f.gt_by_img[img]) = Len(f.ground_truths[img])
                        /\ \A i \in 1..Len(f.gt_by_img[img]) :
                              f.gt_by_img[img][i].bbox = f.ground_truths[img][i]
                  THEN f.gt_by_img ELSE GroupGt(f.ground_truths),
              !.tp = <<>>, !.fp = <<>>, !.k = 0,
              !.total_gt_count = TotalGtCount(f.ground_truths),
              !.sorted_preds = SortPreds(f.predictions)]

\* the value of a key that a prediction dict does not have
NoKey == 0 - 1

\* line 48 reads pred['image_id'] and line 55 pred['score'] of every prediction
LacksImageId(predictions) ==
    \E i \in 1..Len(predictions) : predictions[i].image_id = NoKey

LacksScore(predictions) ==
    \E i \in 1..Len(predictions) : predictions[i].score = NoKey

Malformed(predictions) == LacksImageId(predictions) \/ LacksScore(predictions)

\* lines 41-55; the KeyError of line 48 leaves the locals of lines 50-55
\* unassigned, the KeyError of line 55 leaves sorted_preds unassigned
Setup(f) ==
    IF LacksImageId(f.predictions)
    THEN [f EXCEPT !.pc = "raised", !.gt_by_img = GroupGt(f.ground_truths)]
    ELSE IF LacksScore(f.predictions)
    THEN [f EXCEPT !.pc = "raised",
                   !.gt_by_img = GroupGt(f.ground_truths),
                   !.tp = <<>>, !.fp = <<>>,
                   !.total_gt_count = TotalGtCount(f.ground_truths)]
    ELSE [f EXCEPT !.pc = "loop",
                   !.gt_by_img = GroupGt(f.ground_truths),
                   !.tp = <<>>, !.fp = <<>>, !.k = 0,
                   !.total_gt_count = TotalGtCount(f.ground_truths),
                   !.sorted_preds = SortPreds(f.predictions)]

\* lines 57-61: the prediction the loop is at, and its image's ground truth
CurPred(f) == f.predictions[f.sorted_preds[f.k + 1]]

GtList(f) == f.gt_by_img[CurPred(f).image_id]

RECURSIVE BestScanGe(_, _, _, _)
\* the scan with >= in place of >
BestScanGe(metrics, i, best_gt_idx, max_metric) ==
    IF i > Len(metrics) THEN best_gt_idx
    ELSE IF ~QGt(max_metric, metrics[i])
         THEN BestScanGe(metrics, i + 1, i, metrics[i])
         ELSE BestScanGe(metrics, i + 1, best_gt_idx, max_metric)

RECURSIVE BestScan(_, _, _, _)
BestScan(metrics, i, best_gt_idx, max_metric) ==
    IF i > Len(metrics) THEN best_gt_idx
    ELSE IF QGt(metrics[i], max_metric)
         THEN BestScan(metrics, i + 1, i, metrics[i])
         ELSE BestScan(metrics, i + 1, best_gt_idx, max_metric)

\* lines 82-89; indices count from 1 and -1 stands for no match, as in the source
BestGtIdx(metrics, iou_threshold) == BestScan(metrics, 1, 0 - 1, iou_threshold)

\* the best match among the boxes that are not yet detected
CurBestUndetected(f) ==
    BestGtIdx([j \in 1..Len(GtList(f)) |->
                  IF GtList(f)[j].detected THEN f.iou_threshold
                  ELSE Metrics(f.metric, CurPred(f).bbox, GtList(f))[j]],
              f.iou_threshold)

\* the best match of the current prediction
CurBest(f) ==
    BestGtIdx(Metrics(f.metric, CurPred(f).bbox, GtList(f)), f.iou_threshold)

\* tp.append / fp.append and the step to the next prediction
Labelled(f, is_tp) ==
    [f EXCEPT !.tp = Append(f.tp, is_tp), !.fp = Append(f.fp, 1 - is_tp),
              !.k = f.k + 1]

\* the flag is read but never set
ClaimWithoutFlag(f, best_gt_idx) ==
    IF ~f.gt_by_img[CurPred(f).image_id][best_gt_idx].detected
    THEN Labelled(f, 1)
    ELSE Labelled(f, 0)

\* the flag is set but never read
ClaimAlways(f, best_gt_idx) ==
    Labelled([f EXCEPT !.gt_by_img[CurPred(f).image_id][best_gt_idx].detected = TRUE], 1)

\* lines 91-98: claim the selected box unless it is claimed already
Claim(f, best_gt_idx) ==
    LET img == CurPred(f).image_id IN
    IF ~f.gt_by_img[img][best_gt_idx].detected
    THEN Labelled([f EXCEPT !.gt_by_img[img][best_gt_idx].detected = TRUE], 1)
    ELSE Labelled(f, 0)

\* the continue of line 65 taken before the two appends
LoopBodySkipNoGt(f) ==
    IF GtList(f) = <<>> THEN [f EXCEPT !.k = f.k + 1]
    ELSE IF f.metric \notin KnownMetrics THEN [f EXCEPT !.pc = "raised"]
    ELSE IF CurBest(f) # 0 - 1 THEN Claim(f, CurBest(f))
    ELSE Labelled(f, 0)

\* lines 57-101: one iteration of the loop
LoopBody(f) ==
    IF GtList(f) = <<>> THEN Labelled(f, 0)
    ELSE IF f.metric \notin KnownMetrics THEN [f EXCEPT !.pc = "raised"]
    ELSE IF CurBest(f) # 0 - 1 THEN Claim(f, CurBest(f))
    ELSE Labelled(f, 0)

(***************************************************************************)
(* Precision-recall integration                                            *)
(***************************************************************************)
RECURSIVE SumTo(_, _)
SumTo(s, i) == IF i = 0 THEN 0 ELSE SumTo(s, i - 1) + s[i]

\* np.cumsum
CumSum(s) == [i \in 1..Len(s) |-> SumTo(s, i)]

\* the maximum of each element and its right neighbour only, taken on the
\* sequence as it was: np.maximum(precisions[:-1], precisions[1:])
EnvelopeOneStep(precisions, i) ==
    [j \in 1..Len(precisions) |->
        IF j <= i THEN QMax(precisions[j], precisions[j + 1]) ELSE precisions[j]]

RECURSIVE EnvelopePass(_, _)
\* lines 28-29, from index i down to the first
EnvelopePass(precisions, i) ==
    IF i < 1 THEN precisions
    ELSE EnvelopePass([precisions EXCEPT ![i] = QMax(precisions[i], precisions[i + 1])],
                      i - 1)

Envelope(precisions) == EnvelopePass(precisions, Len(precisions) - 1)

RECURSIVE SumSteps(_, _, _)
\* line 31: the sum over the indices 2..i at which the recall changes
SumSteps(recalls, precisions, i) ==
    IF i < 2 THEN QInt(0)
    ELSE IF QEq(recalls[i], recalls[i - 1]) THEN SumSteps(recalls, precisions, i - 1)
    ELSE QAdd(SumSteps(recalls, precisions, i - 1),
              QMul(QSub(recalls[i], recalls[i - 1]), precisions[i]))

\* the sum over the raw precisions, lines 28-29 left out
calculate_ap_raw(recalls, precisions) ==
    SumSteps(<<QInt(0)>> \o recalls, <<QInt(1)>> \o precisions, Len(recalls) + 1)

\* lines 24-32
calculate_ap(recalls, precisions) ==
    LET r == <<QInt(0)>> \o recalls
        p == Envelope(<<QInt(1)>> \o precisions)
    IN  SumSteps(r, p, Len(r))

\* lines 107-110
Recalls(tp, total_gt_count) ==
    [i \in 1..Len(tp) |-> QDiv(QInt(CumSum(tp)[i]), QInt(total_gt_count))]

\* acc_tp / (acc_fp + 1e-8)
PrecisionsOverFp(tp, fp) ==
    [i \in 1..Len(tp) |->
        QDiv(QInt(CumSum(tp)[i]), QAdd(QInt(CumSum(fp)[i]), EPS))]

Precisions(tp, fp) ==
    [i \in 1..Len(tp) |->
        QDiv(QInt(CumSum(tp)[i]), QAdd(QInt(CumSum(fp)[i] + CumSum(tp)[i]), EPS))]

\* 0.0 for every call without ground truth
ReturnValueZero(f) ==
    IF f.total_gt_count = 0 THEN QInt(0)
    ELSE calculate_ap(Recalls(f.tp, f.total_gt_count), Precisions(f.tp, f.fp))

\* lines 103-112
ReturnValue(f) ==
    IF f.total_gt_count = 0
    THEN (IF Len(f.predictions) > 0 THEN QInt(0) ELSE QInt(1))
    ELSE calculate_ap(Recalls(f.tp, f.total_gt_count), Precisions(f.tp, f.fp))

Finish(f) == [f EXCEPT !.pc = "done", !.ret = <<ReturnValue(f)>>]

\* the frame after its next step, and after all its steps
StepFrame(f) ==
    IF f.pc = "entry" THEN Setup(f)
    ELSE IF f.k < Len(f.sorted_preds) THEN LoopBody(f)
    ELSE Finish(f)

RECURSIVE RunToEnd(_)
RunToEnd(f) == IF f.pc \in {"done", "raised"} THEN f ELSE RunToEnd(StepFrame(f))

(***************************************************************************)
(* Spec: evaluate_predictions_for_class called once, on any arguments      *)
(***************************************************************************)
\* scores in tenths: 9 is the score 0.9
Scores == {8, 9}

BoxA == <<0, 0, 10, 10>>
\* inside BoxA, four fifths of it
BoxB == <<0, 0, 10, 8>>
\* inside BoxA and BoxB, a quarter of BoxA
BoxS == <<0, 0, 5, 5>>
\* negative width: a degenerate box
BoxD == <<5, 5, -3, 4>>

GtBoxes == {BoxA, BoxB}

PredBoxes == {BoxA, BoxS, BoxD}

\* image 1 has up to two boxes, image 2 none or BoxA
GroundTruthArgs ==
    {[img \in Images |-> IF img = 1 THEN g1 ELSE g2] :
        g1 \in SeqsUpTo(GtBoxes, 2), g2 \in SeqsUpTo({BoxA}, 1)}

\* any box in image 1, BoxA in image 2
PredictionRecords ==
    [image_id : {1}, bbox : PredBoxes, score : Scores]
        \cup [image_id : {2}, bbox : {BoxA}, score : Scores]

PredictionArgs == SeqsUpTo(PredictionRecords, MaxPreds)

\* "giou" stands for every name that is neither 'iou' nor 'iop'
MetricArgs == {"iou", "iop", "giou"}

\* the default 0.5, and 0
ThresholdArgs == {Frac(<<1>>, <<2>>), QInt(0)}

MainIdle == [pc |-> "idle"]

\* no data_prefetcher has been built
NoPrefetcher == [pc |-> "none"]

Init ==
    /\ frame \in {Call(g, p, m, t) : g \in GroundTruthArgs, p \in PredictionArgs,
                                      m \in MetricArgs, t \in ThresholdArgs}
    /\ main = MainIdle
    /\ workers = <<>>
    /\ prefetcher = NoPrefetcher

InLoop(f) == f.pc = "loop" /\ f.k < Len(f.sorted_preds)

Matching(f) == InLoop(f) /\ GtList(f) # <<>> /\ f.metric \in KnownMetrics

\* where a frame stands: the branch its next step takes
AtSetup(f) == f.pc = "entry" /\ ~Malformed(f.predictions)

AtKeyError(f) == f.pc = "entry" /\ Malformed(f.predictions)

AtNoGt(f) == InLoop(f) /\ GtList(f) = <<>>

AtRaise(f) == InLoop(f) /\ GtList(f) # <<>> /\ f.metric \notin KnownMetrics

AtTruePositive(f) ==
    Matching(f) /\ CurBest(f) # 0 - 1 /\ ~GtList(f)[CurBest(f)].detected

AtDuplicate(f) ==
    Matching(f) /\ CurBest(f) # 0 - 1 /\ GtList(f)[CurBest(f)].detected

AtNone(f) == Matching(f) /\ CurBest(f) = 0 - 1

AtReturn(f) == f.pc = "loop" /\ f.k = Len(f.sorted_preds)

\* lines 41-55
EvalSetup ==
    /\ AtSetup(frame)
    /\ frame' = Setup(frame)
    /\ UNCHANGED <<main, workers, prefetcher>>

\* lines 41-55 on a prediction without 'image_id' or 'score': KeyError
EvalKeyError ==
    /\ AtKeyError(frame)
    /\ frame' = Setup(frame)
    /\ UNCHANGED <<main, workers, prefetcher>>

\* lines 61-65: the prediction's image has no ground truth
MatchNoGt ==
    /\ AtNoGt(frame)
    /\ frame' = LoopBody(frame)
    /\ UNCHANGED <<main, workers, prefetcher>>

\* line 80
MatchRaise ==
    /\ AtRaise(frame)
    /\ frame' = LoopBody(frame)
    /\ UNCHANGED <<main, workers, prefetcher>>

\* lines 91-95: the best box is claimed
MatchTruePositive ==
    /\ AtTruePositive(frame)
    /\ frame' = LoopBody(frame)
    /\ UNCHANGED <<main, workers, prefetcher>>

\* lines 96-98: the best box is claimed already
MatchDuplicate ==
    /\ AtDuplicate(frame)
    /\ frame' = LoopBody(frame)
    /\ UNCHANGED <<main, workers, prefetcher>>

\* lines 99-101: no box is above the threshold
MatchNone ==
    /\ AtNone(frame)
    /\ frame' = LoopBody(frame)
    /\ UNCHANGED <<main, workers, prefetcher>>

\* lines 103-112
EvalReturn ==
    /\ AtReturn(frame)
    /\ frame' = Finish(frame)
    /\ UNCHANGED <<main, workers, prefetcher>>

\* some step of the call can be taken
CanStep(f) ==
    \/ AtSetup(f) \/ AtKeyError(f) \/ AtNoGt(f) \/ AtRaise(f) \/ AtTruePositive(f)
    \/ AtDuplicate(f) \/ AtNone(f) \/ AtReturn(f)

Next ==
    \/ EvalSetup
    \/ MatchNoGt
    \/ MatchRaise
    \/ MatchTruePositive
    \/ MatchDuplicate
    \/ MatchNone
    \/ EvalReturn

Spec == Init /\ [][Next]_vars

(***************************************************************************)
(* Properties of one evaluation run (checked under Spec)                   *)
(***************************************************************************)
Returned(f) == f.pc = "done"

Ap(f) == f.ret[1]

RECURSIVE CountDetected(_, _)
CountDetected(gt_by_img, imgs) ==
    IF imgs = {} THEN 0
    ELSE LET img == CHOOSE i \in imgs : TRUE
         IN  Cardinality({i \in 1..Len(gt_by_img[img]) : gt_by_img[img][i].detected})
             + CountDetected(gt_by_img, imgs \ {img})

NumDetected(f) == CountDetected(f.gt_by_img, Images)

NumTP(f) == SumTo(f.tp, Len(f.tp))

FlagsKept(f, g) ==
    \A img \in Images : \A i \in 1..Len(f.gt_by_img[img]) :
        f.gt_by_img[img][i].detected => g.gt_by_img[img][i].detected

\* the flags that a step sets
NewlyDetected(f, g) ==
    {ib \in Images \X (1..2) :
        /\ ib[2] <= Len(f.gt_by_img[ib[1]])
        /\ ~f.gt_by_img[ib[1]][ib[2]].detected
        /\ g.gt_by_img[ib[1]][ib[2]].detected}

\* C1: within one run every ground-truth box is claimed by at most one true
\* positive: after any prefix of the ranked predictions the number of true
\* positives equals the number of flagged boxes and is at most total_gt_count,
\* a flag once set stays set, and a step sets one flag exactly when it labels
\* its prediction a true positive.
C1_ClaimedAtMostOnce ==
    /\ [](frame.pc \in {"loop", "done"} =>
            /\ NumTP(frame) = NumDetected(frame)
            /\ NumTP(frame) <= frame.total_gt_count)
    /\ [][frame.pc = "loop" =>
            /\ FlagsKept(frame, frame')
            /\ Cardinality(NewlyDetected(frame, frame')) = NumTP(frame') - NumTP(frame)]_vars

\* a run of two predictions for one box: the second one was refused the box
C1_Witness ==
    /\ Returned(frame)
    /\ frame.total_gt_count = 1
    /\ NumDetected(frame) = 1
    /\ frame.tp = <<1, 0>>
    /\ frame.predictions[1].bbox = BoxA
    /\ frame.predictions[2].bbox = BoxA
    /\ frame.predictions[1].image_id = frame.predictions[2].image_id

\* the overlap of prediction i with box j of its image is above the threshold
Overlaps(f, i, j) ==
    QGt(Metrics(f.metric, f.predictions[i].bbox,
                GroupGt(f.ground_truths)[f.predictions[i].image_id])[j],
        f.iou_threshold)

\* two predictions in one image that has a single box, both above the threshold
TwoOnOneBox(f) ==
    /\ f.metric \in KnownMetrics
    /\ Len(f.predictions) = 2
    /\ f.predictions[1].image_id = f.predictions[2].image_id
    /\ Len(f.ground_truths[f.predictions[1].image_id]) = 1
    /\ Overlaps(f, 1, 1)
    /\ Overlaps(f, 2, 1)

\* C2: a prediction whose selected best box is claimed already is labelled
\* FalsePositive, and two predictions of one image that both overlap its single
\* box above the threshold give the ranked outcomes [TruePositive, FalsePositive].
C2_DuplicateSuppressed ==
    /\ [](Returned(frame) /\ TwoOnOneBox(frame) => frame.tp = <<1, 0>> /\ frame.fp = <<0, 1>>)
    /\ [][AtDuplicate(frame)
          => /\ frame'.tp = Append(frame.tp, 0)
             /\ frame'.fp = Append(frame.fp, 1)
             /\ frame'.gt_by_img = frame.gt_by_img]_vars

C2_Witness ==
    /\ Returned(frame)
    /\ TwoOnOneBox(frame)
    /\ frame.predictions[1].score < frame.predictions[2].score
    /\ frame.sorted_preds = <<2, 1>>
    /\ frame.tp = <<1, 0>>

\* C3: every AP value returned lies in [0, 1].
C3_ApInUnitInterval ==
    Returned(frame) => QLe(QInt(0), Ap(frame)) /\ QLe(Ap(frame), QInt(1))

\* an AP strictly between 0 and 1, from a run with a degenerate prediction
C3_Witness ==
    /\ Returned(frame)
    /\ QGt(Ap(frame), QInt(0))
    /\ QGt(QInt(1), Ap(frame))
    /\ \E i \in 1..Len(frame.predictions) : frame.predictions[i].bbox = BoxD
    /\ frame.total_gt_count = 2

\* one box [0,0,10,10] in image 1, one prediction [0,0,10,10] of score 0.9 in image 1
PerfectMatch(f) ==
    /\ f.ground_truths = [img \in Images |-> IF img = 1 THEN <<BoxA>> ELSE <<>>]
    /\ f.predictions = <<[image_id |-> 1, bbox |-> BoxA, score |-> 9]>>
    /\ f.metric \in KnownMetrics
    /\ f.iou_threshold = Frac(<<1>>, <<2>>)

\* C5 as stated: the perfect match returns ap = 1.0 under both metrics.
C5_PerfectMatchIsOne ==
    Returned(frame) /\ PerfectMatch(frame) => QEq(Ap(frame), QInt(1))

\* C5, amended: the perfect match is a true positive under both metrics and
\* returns ap = 1 / (1 + 1e-8), the precision tp / (tp + fp + 1e-8) of its one
\* true positive.
C5_PerfectMatchAp ==
    Returned(frame) /\ PerfectMatch(frame) =>
        /\ frame.tp = <<1>>
        /\ QEq(Ap(frame), QDiv(QInt(1), QAdd(QInt(1), EPS)))

C5_Witness ==
    Returned(frame) /\ PerfectMatch(frame) /\ frame.metric = "iop"

\* C6: with total_gt_count = 0 the call returns 0.0 for a non-empty prediction
\* list and 1.0 for an empty one, whatever the metric name and the threshold:
\* it never raises, and the value it returns is that one.
C6_NoGroundTruth ==
    frame.total_gt_count = 0 /\ frame.pc # "entry" =>
        /\ frame.pc # "raised"
        /\ Returned(frame) =>
            Ap(frame) = IF Len(frame.predictions) > 0 THEN QInt(0) ELSE QInt(1)

C6_Witness ==
    /\ Returned(frame)
    /\ frame.total_gt_count = 0
    /\ Len(frame.predictions) = 0
    /\ frame.metric = "giou"
    /\ frame.iou_threshold = QInt(0)

\* C7 as stated: a metric name outside {iou, iop} is signalled before any
\* prediction is matched, for every input, and never returns an AP value.
C7_UnknownMetricRejected ==
    frame.metric \notin KnownMetrics =>
        /\ ~Returned(frame)
        /\ frame.pc = "loop" => frame.k = 0

\* the ranked order: every prediction once, scores descending
IsRanking(f) ==
    /\ Len(f.sorted_preds) = Len(f.predictions)
    /\ \A i \in 1..Len(f.predictions) : \E r \in 1..Len(f.sorted_preds) : f.sorted_preds[r] = i
    /\ \A r \in 1..(Len(f.sorted_preds) - 1) :
        f.predictions[f.sorted_preds[r]].score >= f.predictions[f.sorted_preds[r + 1]].score

\* C8: for the metrics iou and iop the matcher never raises and runs to its
\* return: until it has returned it has a step to take, and each step labels
\* one more prediction or moves on in the function.  The k predictions passed
\* so far carry one label each, TruePositive or FalsePositive, in ranked order,
\* and at the return k is the number of predictions; with no ground truth
\* every label is FalsePositive, with no predictions there is no label.
C8_MatcherTotal ==
    /\ [](frame.metric \in KnownMetrics =>
            /\ frame.pc # "raised"
            /\ Returned(frame) \/ CanStep(frame)
            /\ frame.pc # "entry" =>
                /\ IsRanking(frame)
                /\ frame.k <= Len(frame.predictions)
                /\ Len(frame.tp) = frame.k
                /\ Len(frame.fp) = frame.k
                /\ \A i \in 1..frame.k :
                    frame.tp[i] \in {0, 1} /\ frame.fp[i] = 1 - frame.tp[i]
                /\ Returned(frame) => frame.k = Len(frame.predictions)
                /\ frame.total_gt_count = 0 => NumTP(frame) = 0)
    /\ [][frame.metric \in KnownMetrics =>
            \/ frame.pc = "entry" /\ frame'.pc = "loop"
            \/ frame.pc = "loop" /\ frame'.pc = "loop" /\ frame'.k = frame.k + 1
            \/ frame.pc = "loop" /\ frame'.pc = "done" /\ frame'.k = frame.k]_vars

C8_Witness ==
    /\ Returned(frame)
    /\ frame.metric = "iop"
    /\ frame.tp = <<0, 1>>
    /\ frame.predictions[frame.sorted_preds[1]].bbox = BoxD

(***************************************************************************)
(* main: the per-category driver.  The record main holds its locals; pc is *)
(* "start" before line 116, "next" at the head of the loop of line 149,    *)
(* "in_iou" and "in_iop" while the call of line 153 or 156 runs in frame,  *)
(* "summary" before line 162 and "done" after line 171.  rows are the      *)
(* lines printed at line 160.                                              *)
(***************************************************************************)
MaxAnns == 2

Categories == {1, 2}

\* crowd annotations are not skipped
KeptAll(ann) == TRUE

\* line 127
Kept(ann) == ann.iscrowd # 1

RECURSIVE BoxesTo(_, _, _, _)
\* lines 126-131: the boxes of the first i annotations that are kept for
\* category cat_id and image img_id, in their order
BoxesTo(annotations, cat_id, img_id, i) ==
    IF i = 0 THEN <<>>
    ELSE LET ann == annotations[i]
             before == BoxesTo(annotations, cat_id, img_id, i - 1)
         IN  IF Kept(ann) /\ ann.category_id = cat_id /\ ann.image_id = img_id
             THEN Append(before, ann.bbox)
             ELSE before

\* lines 125-131; a category or image without a key has the empty list
GroundTruthsByCat(annotations) ==
    [cat_id \in Categories |->
        [img_id \in Images |-> BoxesTo(annotations, cat_id, img_id, Len(annotations))]]

RECURSIVE PredsTo(_, _, _)
PredsTo(preds, cat_id, i) ==
    IF i = 0 THEN <<>>
    ELSE IF preds[i].category_id = cat_id
         THEN Append(PredsTo(preds, cat_id, i - 1), preds[i])
         ELSE PredsTo(preds, cat_id, i - 1)

\* lines 133-136
PredictionsByCat(preds) ==
    [cat_id \in Categories |-> PredsTo(preds, cat_id, Len(preds))]

RECURSIVE Ascending(_)
Ascending(S) ==
    IF S = {} THEN <<>>
    ELSE LET least == CHOOSE x \in S : \A y \in S : x <= y
         IN  <<least>> \o Ascending(S \ {least})

\* every category of the dataset, with or without ground truth
CategoryIdsAll(ground_truths_by_cat) == Ascending(Categories)

\* line 138: the keys of ground_truths_by_cat, the categories an annotation
\* was appended for
CategoryIds(ground_truths_by_cat) ==
    Ascending({cat_id \in Categories :
        \E img_id \in Images : ground_truths_by_cat[cat_id][img_id] # <<>>})

RECURSIVE QSum(_, _)
QSum(s, i) == IF i = 0 THEN QInt(0) ELSE QAdd(QSum(s, i - 1), s[i])

\* lines 162-163: np.mean, 0 for the empty list
Mean(aps) == IF aps # <<>> THEN QDiv(QSum(aps, Len(aps)), QInt(Len(aps))) ELSE QInt(0)

MainStart(gt_data, preds_data) ==
    [pc |-> "start", gt_data |-> gt_data, preds_data |-> preds_data,
     ground_truths_by_cat |-> [cat_id \in Categories |-> NoBoxes],
     predictions_by_cat |-> [cat_id \in Categories |-> <<>>],
     category_ids |-> <<>>, ci |-> 0,
     all_aps_iou |-> <<>>, all_aps_iop |-> <<>>, rows |-> <<>>,
     mean_ap_iou |-> <<>>, mean_ap_iop |-> <<>>]

\* the category the loop of line 149 is at
CatId(m) == m.category_ids[m.ci]

\* the head of the loop: the next category, or the lines after the loop
LoopHead(m) ==
    IF m.ci < Len(m.category_ids)
    THEN [m EXCEPT !.pc = "next", !.ci = m.ci + 1]
    ELSE [m EXCEPT !.pc = "summary"]

\* the default 0.5 of line 34, passed at lines 153 and 156
Half == Frac(<<1>>, <<2>>)

\* lines 116-147
MainLoad ==
    /\ main.pc = "start"
    /\ main' = LoopHead([main EXCEPT
            !.ground_truths_by_cat = GroundTruthsByCat(main.gt_data),
            !.predictions_by_cat = PredictionsByCat(main.preds_data),
            !.category_ids = CategoryIds(GroundTruthsByCat(main.gt_data))])
    /\ UNCHANGED <<frame, workers, prefetcher>>

\* lines 150-153
MainCallIou ==
    /\ main.pc = "next"
    /\ frame' = Enter(frame, main.ground_truths_by_cat[CatId(main)],
                      main.predictions_by_cat[CatId(main)], "iou", Half)
    /\ main' = [main EXCEPT !.pc = "in_iou"]
    /\ UNCHANGED <<workers, prefetcher>>

\* lines 154-156
MainCallIop ==
    /\ main.pc = "in_iou"
    /\ Returned(frame)
    /\ main' = [main EXCEPT !.pc = "in_iop",
                            !.all_aps_iou = Append(main.all_aps_iou, Ap(frame))]
    /\ frame' = Enter(frame, main.ground_truths_by_cat[CatId(main)],
                      main.predictions_by_cat[CatId(main)], "iop", Half)
    /\ UNCHANGED <<workers, prefetcher>>

\* lines 157-160
MainRow ==
    /\ main.pc = "in_iop"
    /\ Returned(frame)
    /\ main' = LoopHead([main EXCEPT
            !.all_aps_iop = Append(main.all_aps_iop, Ap(frame)),
            !.rows = Append(main.rows,
                [cat_id |-> CatId(main), ap_iou |-> main.all_aps_iou[main.ci],
                 ap_iop |-> Ap(frame)])])
    /\ UNCHANGED <<frame, workers, prefetcher>>

\* lines 162-171
MainSummary ==
    /\ main.pc = "summary"
    /\ main' = [main EXCEPT !.pc = "done",
                            !.mean_ap_iou = <<Mean(main.all_aps_iou)>>,
                            !.mean_ap_iop = <<Mean(main.all_aps_iop)>>]
    /\ UNCHANGED <<frame, workers, prefetcher>>

\* lines 153 and 156 have no handler: the error of a call ends main
MainFail ==
    /\ main.pc \in {"in_iou", "in_iop"}
    /\ frame.pc = "raised"
    /\ main' = [main EXCEPT !.pc = "failed"]
    /\ UNCHANGED <<frame, workers, prefetcher>>

\* the annotations and predictions of the two input files
\* categories 1 and 2 in image 1, category 1 in image 2
AnnotationRecords ==
    [image_id : {1}, category_id : Categories, bbox : {BoxA}, iscrowd : {0, 1}]
        \cup [image_id : {2}, category_id : {1}, bbox : {BoxA}, iscrowd : {0, 1}]

MainPredictionRecords ==
    [image_id : {1}, category_id : {1}, bbox : {BoxA, BoxS}, score : {9}]
        \cup [image_id : {1}, category_id : {2}, bbox : {BoxA}, score : {9}]
        \cup [image_id : {2}, category_id : {1}, bbox : {BoxA}, score : {9}]

InitMain ==
    /\ main \in {MainStart(g, p) : g \in SeqsUpTo(AnnotationRecords, MaxAnns),
                                    p \in SeqsUpTo(MainPredictionRecords, MaxPreds)}
    /\ frame = EmptySlot
    /\ workers = <<>>
    /\ prefetcher = NoPrefetcher

NextMain ==
    \/ MainLoad
    \/ MainCallIou
    \/ EvalSetup
    \/ MatchNoGt
    \/ MatchTruePositive
    \/ MatchDuplicate
    \/ MatchNone
    \/ EvalReturn
    \/ MainCallIop
    \/ MainRow
    \/ MainSummary

SpecMain == InitMain /\ [][NextMain]_vars

(***************************************************************************)
(* Properties of main (checked under SpecMain)                             *)
(***************************************************************************)
InCall == main.pc \in {"in_iou", "in_iop"}

\* the same call made on a frame of its own, run to its end
Isolated(f) ==
    RunToEnd(Call(f.ground_truths, f.predictions, f.metric, f.iou_threshold))

\* C4: an evaluation run is a function of its arguments.  Each call of main
\* returns the labels and the AP that the same call returns on a frame of its
\* own, whatever call used the frame before it (the IoP run after the IoU run
\* of its category, every run after those of the category before); and no
\* step of a call changes the ground truth and the predictions it was given,
\* nor the collections of main they come from.
C4_RunIsPure ==
    /\ [](InCall /\ Returned(frame) =>
            /\ frame.tp = Isolated(frame).tp
            /\ frame.fp = Isolated(frame).fp
            /\ frame.ret = Isolated(frame).ret)
    /\ [](InCall =>
            /\ frame.ground_truths = main.ground_truths_by_cat[CatId(main)]
            /\ frame.predictions = main.predictions_by_cat[CatId(main)])
    /\ [][main.pc # "start" =>
            /\ main'.ground_truths_by_cat = main.ground_truths_by_cat
            /\ main'.predictions_by_cat = main.predictions_by_cat
            /\ main'.gt_data = main.gt_data
            /\ main'.preds_data = main.preds_data]_vars

\* the IoP run claims a box that the IoU run of the category claimed before it
C4_Witness ==
    /\ main.pc = "in_iop"
    /\ Returned(frame)
    /\ frame.metric = "iop"
    /\ frame.tp = <<1, 1>>
    /\ QGt(main.all_aps_iou[main.ci], QInt(0))
    /\ QGt(Ap(frame), main.all_aps_iou[main.ci])

IsCrowd(ann) == ann.iscrowd = 1

\* the annotations of a category and image that are not crowd-flagged
NonCrowd(annotations, cat_id, img_id) ==
    {i \in 1..Len(annotations) :
        /\ annotations[i].category_id = cat_id
        /\ annotations[i].image_id = img_id
        /\ ~IsCrowd(annotations[i])}

DetectedIn(f, img_id) ==
    {i \in 1..Len(f.gt_by_img[img_id]) : f.gt_by_img[img_id][i].detected}

\* C10: annotations with iscrowd = 1 are no ground truth.  In every call of
\* main the ground-truth total is the number of the category's annotations
\* that are not crowd-flagged, each image has as many matchable boxes as it
\* has such annotations, and a prediction in an image whose annotations of
\* the category are all crowd-flagged is not a true positive.
C10_CrowdExcluded ==
    InCall /\ frame.pc \in {"loop", "done"} =>
        /\ frame.total_gt_count =
              Cardinality(UNION {{<<img_id, i>> : i \in NonCrowd(main.gt_data, CatId(main), img_id)} :
                                    img_id \in Images})
        /\ \A img_id \in Images :
              /\ Len(frame.gt_by_img[img_id])
                    = Cardinality(NonCrowd(main.gt_data, CatId(main), img_id))
              /\ Cardinality(DetectedIn(frame, img_id))
                    <= Cardinality(NonCrowd(main.gt_data, CatId(main), img_id))
        /\ \A r \in 1..frame.k :
              NonCrowd(main.gt_data, CatId(main),
                       frame.predictions[frame.sorted_preds[r]].image_id) = {}
                  => frame.tp[r] = 0

\* a prediction on a crowd-flagged box, in a category with one other box
C10_Witness ==
    /\ InCall
    /\ Returned(frame)
    /\ frame.total_gt_count = 1
    /\ \E i \in 1..Len(main.gt_data) :
          /\ IsCrowd(main.gt_data[i])
          /\ main.gt_data[i].category_id = CatId(main)
          /\ main.gt_data[i].image_id = 1
          /\ main.gt_data[i].bbox = BoxA
    /\ frame.predictions = <<[image_id |-> 1, category_id |-> CatId(main),
                              bbox |-> BoxA, score |-> 9]>>
    /\ frame.tp = <<0>>

(***************************************************************************)
(* SpecPar: the calls of lines 153 and 156 run as independent workers, one *)
(* frame per (category, metric) pair, their steps interleaved in any       *)
(* order.  main dispatches them all after line 147 and builds its lists    *)
(* and rows from their results once all have returned.                     *)
(***************************************************************************)
MetricsRun == {"iou", "iop"}

\* the records of a category are shared by its two runs: a write of the flags
\* shows in the other run of the category
StoreShared(ws, w, g) ==
    [v \in DOMAIN ws |->
        IF v = w THEN g
        ELSE IF v[1] = w[1] /\ ws[v].pc = "loop"
             THEN [ws[v] EXCEPT !.gt_by_img = g.gt_by_img]
             ELSE ws[v]]

\* a worker's step writes the frame of its own call: the records of lines
\* 41-44 belong to that call
Store(ws, w, g) == [ws EXCEPT ![w] = g]

\* lines 116-147, and the calls of lines 150-156 for every category
ParDispatch ==
    /\ main.pc = "start"
    /\ LET gts == GroundTruthsByCat(main.gt_data)
           preds == PredictionsByCat(main.preds_data)
           ids == CategoryIds(gts)
       IN  /\ main' = [main EXCEPT !.pc = "dispatched",
                                   !.ground_truths_by_cat = gts,
                                   !.predictions_by_cat = preds,
                                   !.category_ids = ids]
           /\ workers' = [w \in {ids[i] : i \in 1..Len(ids)} \X MetricsRun |->
                              Call(gts[w[1]], preds[w[1]], w[2], Half)]
    /\ UNCHANGED <<frame, prefetcher>>

\* one step of one worker
ParStep(w) ==
    /\ main.pc = "dispatched"
    /\ workers[w].pc \in {"entry", "loop"}
    /\ workers' = Store(workers, w, StepFrame(workers[w]))
    /\ UNCHANGED <<frame, main, prefetcher>>

\* lines 154, 157 and 160 for every category, in ascending order
ParCollect ==
    /\ main.pc = "dispatched"
    /\ \A w \in DOMAIN workers : Returned(workers[w])
    /\ main' = [main EXCEPT
            !.pc = "summary",
            !.ci = Len(main.category_ids),
            !.all_aps_iou = [i \in 1..Len(main.category_ids) |->
                                Ap(workers[<<main.category_ids[i], "iou">>])],
            !.all_aps_iop = [i \in 1..Len(main.category_ids) |->
                                Ap(workers[<<main.category_ids[i], "iop">>])],
            !.rows = [i \in 1..Len(main.category_ids) |->
                        [cat_id |-> main.category_ids[i],
                         ap_iou |-> Ap(workers[<<main.category_ids[i], "iou">>]),
                         ap_iop |-> Ap(workers[<<main.category_ids[i], "iop">>])]]]
    /\ UNCHANGED <<frame, workers, prefetcher>>

\* one image, no crowd-flagged annotation
ParAnnotationRecords ==
    [image_id : {1}, category_id : Categories, bbox : {BoxA}, iscrowd : {0}]

ParPredictionRecords ==
    [image_id : {1}, category_id : {1}, bbox : {BoxA, BoxS}, score : {9}]
        \cup [image_id : {1}, category_id : {2}, bbox : {BoxA}, score : {9}]

InitPar ==
    /\ main \in {MainStart(g, p) : g \in SeqsUpTo(ParAnnotationRecords, MaxAnns),
                                    p \in SeqsUpTo(ParPredictionRecords, MaxPreds)}
    /\ frame = EmptySlot
    /\ workers = <<>>
    /\ prefetcher = NoPrefetcher

NextPar ==
    \/ ParDispatch
    \/ \E w \in DOMAIN workers : ParStep(w)
    \/ ParCollect
    \/ MainSummary

SpecPar == InitPar /\ [][NextPar]_vars

(***************************************************************************)
(* Properties of the interleaved runs (checked under SpecPar)              *)
(***************************************************************************)
\* the call of line 153 or 156 for a category, run alone from its entry to
\* its return as main runs it
Sequential(cat_id, metric) ==
    RunToEnd(Call(main.ground_truths_by_cat[cat_id], main.predictions_by_cat[cat_id],
                  metric, Half))

InputCategories(m) ==
    {cat_id \in Categories :
        \/ \E i \in 1..Len(m.gt_data) : m.gt_data[i].category_id = cat_id
        \/ \E i \in 1..Len(m.preds_data) : m.preds_data[i].category_id = cat_id}

\* the AP values of the categories of S under a metric, in ascending order
ApsOf(S, metric) ==
    LET ids == Ascending(S)
    IN  [i \in 1..Len(ids) |-> Ap(Sequential(ids[i], metric))]

\* C11 as stated: each mAP is the mean of the per-category AP values over all
\* categories, and a category without ground truth contributes its
\* special-cased AP (0.0 with predictions, 1.0 without) to that mean.
C11_MeanOverAllCategories ==
    main.pc = "done" /\ InputCategories(main) # {} =>
        /\ QEq(main.mean_ap_iou[1], Mean(ApsOf(InputCategories(main), "iou")))
        /\ QEq(main.mean_ap_iop[1], Mean(ApsOf(InputCategories(main), "iop")))

(***************************************************************************)
(* SpecBoxes: one prediction against one ground-truth box of its image,    *)
(* both taken from a grid that has partly overlapping, nested, disjoint    *)
(* and degenerate boxes (zero or negative width or height)                 *)
(***************************************************************************)
GridBoxes == {<<x, 0, w, h>> : x \in {0, 1}, w \in {0 - 1, 0, 1, 2},
                               h \in {0 - 1, 0, 1, 2}}

InitBoxes ==
    /\ frame \in {Call([img \in Images |-> IF img = 1 THEN <<g>> ELSE <<>>],
                       <<[image_id |-> 1, bbox |-> p, score |-> 9]>>, m, t) :
                     g \in GridBoxes, p \in GridBoxes,
                     m \in KnownMetrics, t \in ThresholdArgs}
    /\ main = MainIdle
    /\ workers = <<>>
    /\ prefetcher = NoPrefetcher

\* the steps a call with a known metric and ground truth in the image takes
NextBoxes ==
    \/ EvalSetup
    \/ MatchTruePositive
    \/ MatchNone
    \/ EvalReturn

SpecBoxes == InitBoxes /\ [][NextBoxes]_vars

PositiveArea(box) == box[3] > 0 /\ box[4] > 0

StableRanking(f) ==
    /\ IsRanking(f)
    /\ \A r, q \in 1..Len(f.sorted_preds) :
        r < q /\ f.predictions[f.sorted_preds[r]].score
                    = f.predictions[f.sorted_preds[q]].score
            => f.sorted_preds[r] < f.sorted_preds[q]

\* the label a step appends is the outcome of the prediction ranked k + 1
LabelsRanked ==
    InLoop(frame) /\ frame.metric \in KnownMetrics /\ frame'.k = frame.k + 1 =>
        LET i == frame.sorted_preds[frame.k + 1]
            n == Len(frame.ground_truths[frame.predictions[i].image_id])
        IN  /\ Len(frame'.tp) = frame.k + 1
            /\ frame'.tp[frame.k + 1] = 1 => \E j \in 1..n : Overlaps(frame, i, j)
            /\ (\A j \in 1..n : ~Overlaps(frame, i, j)) => frame'.tp[frame.k + 1] = 0
            /\ frame'.sorted_preds = frame.sorted_preds

\* C13: predictions are processed in descending score order by a stable sort
\* (equal scores keep their input order), and the labels handed to the
\* precision-recall integration are in that ranked order.
C13_StableDescendingOrder ==
    /\ [](frame.pc \in {"loop", "done", "raised"} => StableRanking(frame))
    /\ [][LabelsRanked]_vars

\* two predictions of equal score, the first in the input a false positive and
\* the second a true positive, labelled in input order
C13_Witness ==
    /\ Returned(frame)
    /\ Len(frame.predictions) = 2
    /\ frame.predictions[1].score = frame.predictions[2].score
    /\ frame.predictions[1].bbox # frame.predictions[2].bbox
    /\ frame.sorted_preds = <<1, 2>>
    /\ frame.tp = <<0, 1>>

(***************************************************************************)
(* SpecMalformed: main on a predictions file in which a record may lack    *)
(* its 'score' or its 'image_id'                                           *)
(***************************************************************************)
MalformedAnnotationRecords ==
    [image_id : {1}, category_id : Categories, bbox : {BoxA}, iscrowd : {0}]

MalformedPredictionRecords ==
    [image_id : {1}, category_id : {1}, bbox : {BoxA, BoxS}, score : {9}]
        \cup [image_id : {2}, category_id : {1}, bbox : {BoxA}, score : {9}]
        \cup [image_id : {1}, category_id : {2}, bbox : {BoxA}, score : {NoKey}]
        \cup [image_id : {NoKey}, category_id : {2}, bbox : {BoxA}, score : {9}]

InitMalformed ==
    /\ main \in {MainStart(g, p) :
                    g \in SeqsUpTo(MalformedAnnotationRecords, MaxAnns),
                    p \in SeqsUpTo(MalformedPredictionRecords, MaxPreds)}
    /\ frame = EmptySlot
    /\ workers = <<>>
    /\ prefetcher = NoPrefetcher

NextMalformed ==
    \/ MainLoad
    \/ MainCallIou
    \/ EvalSetup
    \/ EvalKeyError
    \/ MatchNoGt
    \/ MatchTruePositive
    \/ MatchDuplicate
    \/ MatchNone
    \/ EvalReturn
    \/ MainCallIop
    \/ MainRow
    \/ MainFail
    \/ MainSummary

SpecMalformed == InitMalformed /\ [][NextMalformed]_vars

\* C14 as stated: when the evaluation of a category fails, main fails without
\* having emitted the result record of any category.
C14_NoPartialResults ==
    main.pc = "failed" => main.rows = <<>>

(***************************************************************************)
(* Properties of the matching step (checked under Spec)                    *)
(***************************************************************************)
\* the metrics of the prediction the loop is at
CurMetrics(f) == Metrics(f.metric, CurPred(f).bbox, GtList(f))

\* some box of the image is not yet claimed and overlaps above the threshold
UnmatchedCandidate(f) ==
    \E j \in 1..Len(GtList(f)) :
        ~GtList(f)[j].detected /\ QGt(CurMetrics(f)[j], f.iou_threshold)

\* C15 as stated: the matching is that of pycocotools, each prediction is
\* matched to the best box among those not yet matched, so a prediction is a
\* true positive whenever a still-unmatched box of its image overlaps it above
\* the threshold.
C15_MatchesBestUnmatched ==
    [][Matching(frame) /\ UnmatchedCandidate(frame)
            => frame'.tp = Append(frame.tp, 1)]_vars

(***************************************************************************)
(* SpecAp: calls whose arguments produce a chosen list of outcomes, so     *)
(* that calculate_ap is applied to every list of up to MaxOutcomes labels. *)
(* The ground truth of image 1 is a row of disjoint boxes, one per true    *)
(* positive and up to two more; the prediction ranked r is the box of its  *)
(* true positive where labels[r] = 1 and a box apart from all where        *)
(* labels[r] = 0.                                                          *)
(***************************************************************************)
SlotBox(j) == <<20 * j, 0, 10, 10>>

OutcomeGroundTruths(labels, spare) ==
    [img \in Images |->
        IF img = 1
        THEN [j \in 1..(SumTo(labels, Len(labels)) + spare) |-> SlotBox(j)]
        ELSE <<>>]

OutcomePredictions(labels) ==
    [r \in 1..Len(labels) |->
        [image_id |-> 1, score |-> 9,
         bbox |-> IF labels[r] = 1 THEN SlotBox(SumTo(labels, r)) ELSE SlotBox(0)]]

InitAp ==
    /\ frame \in {Call(OutcomeGroundTruths(labels, spare),
                       OutcomePredictions(labels), "iou", Half) :
                     labels \in SeqsUpTo({0, 1}, MaxOutcomes), spare \in {0, 1, 2}}
    /\ main = MainIdle
    /\ workers = <<>>
    /\ prefetcher = NoPrefetcher

NextAp ==
    \/ EvalSetup
    \/ MatchNoGt
    \/ MatchTruePositive
    \/ MatchNone
    \/ EvalReturn

SpecAp == InitAp /\ [][NextAp]_vars

\* the two arguments of the call of line 112
RecallsOf(f) == Recalls(f.tp, f.total_gt_count)

PrecisionsOf(f) == Precisions(f.tp, f.fp)

\* the precisions after lines 26-29: the sentinel 1.0 prepended, then the
\* backward running maximum
EnvelopeOf(f) == Envelope(<<QInt(1)>> \o PrecisionsOf(f))

NonIncreasing(s) == \A i \in 1..(Len(s) - 1) : QLe(s[i + 1], s[i])

\* C16: after the backward running-maximum pass of calculate_ap the precision
\* sequence, the prepended 1.0 included, is non-increasing.
C16_EnvelopeNonIncreasing ==
    (AtReturn(frame) \/ Returned(frame)) /\ frame.total_gt_count > 0 =>
        /\ Len(EnvelopeOf(frame)) = Len(frame.tp) + 1
        /\ NonIncreasing(EnvelopeOf(frame))
        /\ \A i \in 1..Len(frame.tp) :
            QLe(PrecisionsOf(frame)[i], EnvelopeOf(frame)[i + 1])

\* two false positives and then a true positive: the raw precisions rise at
\* the end and the pass lifts the two before it
C16_Witness ==
    /\ Returned(frame)
    /\ frame.tp = <<0, 0, 1>>
    /\ ~NonIncreasing(<<QInt(1)>> \o PrecisionsOf(frame))
    /\ QGt(EnvelopeOf(frame)[2], PrecisionsOf(frame)[1])
    /\ QEq(EnvelopeOf(frame)[2], PrecisionsOf(frame)[3])

\* the boxes of the current image whose flag the step sets
FlagsSet ==
    {j \in 1..Len(GtList(frame)) :
        /\ ~GtList(frame)[j].detected
        /\ frame'.gt_by_img[CurPred(frame).image_id][j].detected}

MetricsOfPred(f, i) ==
    Metrics(f.metric, f.predictions[i].bbox,
            GroupGt(f.ground_truths)[f.predictions[i].image_id])

SelectedBox(f) ==
    CHOOSE b \in 1..Len(GtList(f)) :
        /\ \A j \in 1..Len(GtList(f)) : QLe(CurMetrics(f)[j], CurMetrics(f)[b])
        /\ \A j \in 1..(b - 1) : QGt(CurMetrics(f)[b], CurMetrics(f)[j])

TpUpTo(f, j) == Cardinality({m \in 1..j : f.tp[m] = 1})

FpUpTo(f, j) == Cardinality({m \in 1..j : f.fp[m] = 1})

RecallAt(f, j) == QDiv(QInt(TpUpTo(f, j)), QInt(f.total_gt_count))

PrecisionAt(f, j) ==
    QDiv(QInt(TpUpTo(f, j)), QAdd(QInt(TpUpTo(f, j) + FpUpTo(f, j)), EPS))

\* the envelope at rank i: the largest precision at rank i or later
EnvelopeAt(f, i) ==
    CHOOSE p \in {PrecisionAt(f, j) : j \in i..Len(f.tp)} :
        \A j \in i..Len(f.tp) : QLe(PrecisionAt(f, j), p)

RECURSIVE StepSum(_, _)
\* the sum, over the ranks up to i at which the recall changes, of the recall
\* step times the envelope precision; the recall before rank 1 is the
\* sentinel 0
StepSum(f, i) ==
    IF i = 0 THEN QInt(0)
    ELSE IF QEq(RecallAt(f, i), RecallAt(f, i - 1)) THEN StepSum(f, i - 1)
    ELSE QAdd(StepSum(f, i - 1),
              QMul(QSub(RecallAt(f, i), RecallAt(f, i - 1)), EnvelopeAt(f, i)))

\* C19: with ground truth present, the returned AP is the sum over the ranks
\* at which the recall changes of (recall step) * (envelope precision), where
\* recall is cumTP / total_gt_count, precision is
\* cumTP / (cumTP + cumFP + 1e-8) and the envelope is the running maximum from
\* the right; the recall changes exactly at the true positives, so the ranks
\* of false positives contribute nothing.
C19_ApIsStepSum ==
    Returned(frame) /\ frame.total_gt_count > 0 =>
        /\ QEq(Ap(frame), StepSum(frame, Len(frame.tp)))
        /\ \A i \in 1..Len(frame.tp) :
            QEq(RecallAt(frame, i), RecallAt(frame, i - 1)) <=> frame.tp[i] = 0
        /\ \A i \in 1..Len(frame.tp) :
            /\ QEq(RecallsOf(frame)[i], RecallAt(frame, i))
            /\ QEq(PrecisionsOf(frame)[i], PrecisionAt(frame, i))
            /\ QEq(EnvelopeOf(frame)[i + 1], EnvelopeAt(frame, i))

\* a false positive and then two true positives: the envelope lifts the
\* precision at rank 2 to that of rank 3, and the AP is 2/3 * 2/(3 + 1e-8)
C19_Witness ==
    /\ Returned(frame)
    /\ frame.tp = <<0, 1, 1>>
    /\ frame.total_gt_count = 3
    /\ QGt(EnvelopeAt(frame, 2), PrecisionAt(frame, 2))
    /\ QEq(Ap(frame), QMul(Frac(<<2>>, <<3>>), Frac(<<2>>, <<3, 1>>)))

(***************************************************************************)
(* Properties of degenerate boxes (checked under SpecBoxes)                *)
(***************************************************************************)
\* non-positive width or non-positive height
Degenerate(box) == box[3] <= 0 \/ box[4] <= 0

\* the pair has no overlap under either metric
NoOverlap(pred_box, gt_box) ==
    /\ calculate_intersection(pred_box, gt_box) = 0
    /\ calculate_intersection(gt_box, pred_box) = 0
    /\ QEq(IoU(pred_box, gt_box), QInt(0))
    /\ QEq(IoP(pred_box, gt_box), QInt(0))

\* C20: a box with non-positive width or height has area 0 and no overlap
\* with any box under both metrics, so for a threshold >= 0 a degenerate
\* prediction is always labelled FalsePositive and a degenerate ground-truth
\* box is never claimed.
C20_DegenerateNeverMatches ==
    frame.pc # "entry" =>
        /\ QLe(QInt(0), frame.iou_threshold)
        /\ \A i \in 1..Len(frame.predictions) :
            \A j \in 1..Len(frame.ground_truths[frame.predictions[i].image_id]) :
                LET pred_box == frame.predictions[i].bbox
                    gt_box == frame.ground_truths[frame.predictions[i].image_id][j]
                IN  /\ Degenerate(pred_box) => calculate_area(pred_box) = 0
                    /\ Degenerate(gt_box) => calculate_area(gt_box) = 0
                    /\ Degenerate(pred_box) \/ Degenerate(gt_box)
                        => NoOverlap(pred_box, gt_box)
        /\ \A r \in 1..frame.k :
            Degenerate(frame.predictions[frame.sorted_preds[r]].bbox)
                => frame.tp[r] = 0 /\ frame.fp[r] = 1
        /\ \A img \in Images : \A j \in 1..Len(frame.gt_by_img[img]) :
            Degenerate(frame.gt_by_img[img][j].bbox)
                => ~frame.gt_by_img[img][j].detected

\* a prediction of negative width and height that lies across a ground-truth
\* box of positive area, labelled FalsePositive at threshold 0
C20_Witness ==
    /\ Returned(frame)
    /\ frame.predictions[1].bbox = <<1, 0, 0 - 1, 0 - 1>>
    /\ frame.ground_truths[1] = << <<0, 0, 2, 2>> >>
    /\ QEq(frame.iou_threshold, QInt(0))
    /\ frame.tp = <<0>>
    /\ NumDetected(frame) = 0

(***************************************************************************)
(* SpecPerm: one call on up to three predictions in image 1 with scores    *)
(* 0.7, 0.8 and 0.9, in every input order                                  *)
(***************************************************************************)
PermPredictionRecords == [image_id : {1}, bbox : {BoxA, BoxS}, score : {7, 8, 9}]

InitPerm ==
    /\ frame \in {Call([img \in Images |-> IF img = 1 THEN g ELSE <<>>], p, m, Half) :
                     g \in SeqsUpTo(GtBoxes, 2),
                     p \in SeqsUpTo(PermPredictionRecords, 3),
                     m \in KnownMetrics}
    /\ main = MainIdle
    /\ workers = <<>>
    /\ prefetcher = NoPrefetcher

NextPerm ==
    \/ EvalSetup
    \/ MatchNoGt
    \/ MatchTruePositive
    \/ MatchDuplicate
    \/ MatchNone
    \/ EvalReturn

SpecPerm == InitPerm /\ [][NextPerm]_vars

DistinctScores(predictions) ==
    \A i, j \in 1..Len(predictions) :
        i # j => predictions[i].score # predictions[j].score

\* the orders a list of n elements can be given in
Orders(n) == {o \in [1..n -> 1..n] : \A i, j \in 1..n : i # j => o[i] # o[j]}

Reordered(predictions, o) == [i \in 1..Len(predictions) |-> predictions[o[i]]]

\* the same call on the predictions in the order o, run to its end
RunReordered(f, o) ==
    RunToEnd(Call(f.ground_truths, Reordered(f.predictions, o), f.metric,
                  f.iou_threshold))

\* C21: when the scores of the predictions are pairwise distinct, the labels
\* and the AP that evaluate_predictions_for_class returns are the same for
\* every order of the input prediction list.
C21_OrderInvariant ==
    Returned(frame) /\ DistinctScores(frame.predictions) =>
        \A o \in Orders(Len(frame.predictions)) :
            /\ RunReordered(frame, o).pc = "done"
            /\ RunReordered(frame, o).tp = frame.tp
            /\ RunReordered(frame, o).fp = frame.fp
            /\ QEq(Ap(RunReordered(frame, o)), Ap(frame))

\* three predictions of distinct scores given out of ranked order, one of them
\* a true positive and one a false positive
C21_Witness ==
    /\ Returned(frame)
    /\ Len(frame.predictions) = 3
    /\ DistinctScores(frame.predictions)
    /\ frame.sorted_preds = <<3, 1, 2>>
    /\ frame.tp = <<0, 1, 0>>
    /\ QGt(Ap(frame), QInt(0))

(***************************************************************************)
(* Properties of the category loop (checked under SpecMain)                *)
(***************************************************************************)
\* the categories with at least one annotation that is not crowd-flagged
EvaluatedCategories(m) ==
    {cat_id \in Categories :
        \E img_id \in Images : NonCrowd(m.gt_data, cat_id, img_id) # {}}

InEvaluated(m, pred) == pred.category_id \in EvaluatedCategories(m)

\* the predictions file without the predictions of the other categories
WithoutUnevaluated(m) ==
    SelectSeq(m.preds_data, LAMBDA pred : InEvaluated(m, pred))

\* the AP of a category under a metric for a predictions file
ApFor(m, preds_data, cat_id, metric) ==
    Ap(RunToEnd(Call(GroundTruthsByCat(m.gt_data)[cat_id],
                     PredictionsByCat(preds_data)[cat_id], metric, Half)))

\* the rows are those of the predictions file preds_data, one per evaluated
\* category in ascending order, and the two means are the means of the rows
ResultsAreOf(m, preds_data) ==
    LET ids == Ascending(EvaluatedCategories(m))
    IN  /\ Len(m.rows) = Len(ids)
        /\ \A i \in 1..Len(ids) :
            /\ m.rows[i].cat_id = ids[i]
            /\ QEq(m.rows[i].ap_iou, ApFor(m, preds_data, ids[i], "iou"))
            /\ QEq(m.rows[i].ap_iop, ApFor(m, preds_data, ids[i], "iop"))
        /\ QEq(m.mean_ap_iou[1], Mean([i \in 1..Len(ids) |-> m.rows[i].ap_iou]))
        /\ QEq(m.mean_ap_iop[1], Mean([i \in 1..Len(ids) |-> m.rows[i].ap_iop]))

\* every call for an evaluated category gets the same predictions from the
\* file preds_data as from the file main was given
SameCalls(m, preds_data) ==
    \A cat_id \in EvaluatedCategories(m) :
        PredictionsByCat(preds_data)[cat_id] = PredictionsByCat(m.preds_data)[cat_id]

\* C22: main evaluates exactly the categories with at least one non-crowd
\* annotation.  No call is made for another category and the predictions of
\* another category reach no call; the rows and both mAP values are the ones
\* of the predictions file with those predictions removed, and adding one
\* more such prediction to the file changes the arguments of no call.
C22_OnlyCategoriesWithGroundTruth ==
    /\ main.pc \in {"in_iou", "in_iop"} =>
        /\ CatId(main) \in EvaluatedCategories(main)
        /\ \A i \in 1..Len(frame.predictions) :
            frame.predictions[i].category_id = CatId(main)
    /\ main.pc = "done" =>
        /\ ResultsAreOf(main, WithoutUnevaluated(main))
        /\ SameCalls(main, WithoutUnevaluated(main))
        /\ \A pred \in MainPredictionRecords :
            ~InEvaluated(main, pred)
                => SameCalls(main, Append(main.preds_data, pred))

\* category 2 has a crowd annotation only and a prediction; category 1 is
\* evaluated with a matched prediction and is the only row
C22_Witness ==
    /\ main.pc = "done"
    /\ EvaluatedCategories(main) = {1}
    /\ \E i \in 1..Len(main.gt_data) : main.gt_data[i].category_id = 2
    /\ \E i \in 1..Len(main.preds_data) : main.preds_data[i].category_id = 2
    /\ Len(main.rows) = 1
    /\ QGt(main.rows[1].ap_iou, QInt(0))
    /\ QEq(main.mean_ap_iou[1], main.rows[1].ap_iou)

(***************************************************************************)
(* data_prefetcher.  A batch is the 4-tuple the loader yields: samples,    *)
(* source_labels, target_labels, samples_strong_aug, the last one possibly *)
(* None.  A value is a record of its batch id, the part of the batch it is *)
(* and the device it is on; None is a record too.  The prefetcher is a     *)
(* record of the attributes of the object: loader is the iterator (the     *)
(* list of batches and the number of them it has yielded), next holds      *)
(* next_samples .. next_samples_strong_aug, out is the list of the tuples  *)
(* that next() has returned so far.  The stream calls of lines 24, 43, 60  *)
(* and 68-80 order the copies on the device and change no value.           *)
(***************************************************************************)
None == [id |-> 0, part |-> "none", device |-> "none"]

\* an attribute that no statement has assigned yet
Unset == [id |-> 0, part |-> "unset", device |-> "unset"]

Nones == <<None, None, None, None>>

Tensor(id, part) == [id |-> id, part |-> part, device |-> "cpu"]

\* the batch of an id as the loader yields it, with or without a strong
\* augmentation
Batch(id, strong) ==
    <<Tensor(id, "samples"), Tensor(id, "source_labels"),
      Tensor(id, "target_labels"),
      IF strong THEN Tensor(id, "samples_strong_aug") ELSE None>>

\* .to(device)
ToDevice(v) == [v EXCEPT !.device = "cuda"]

\* lines 9-16
to_cuda(batch) ==
    <<ToDevice(batch[1]), ToDevice(batch[2]), ToDevice(batch[3]),
      IF batch[4] # None THEN ToDevice(batch[4]) ELSE batch[4]>>

\* next(self.loader) raises StopIteration
Exhausted(p) == p.pos >= Len(p.batches)

\* the batch next(self.loader) yields
Yielded(p) == p.batches[p.pos + 1]

\* lines 27-45
preload(p) ==
    IF Exhausted(p) THEN [p EXCEPT !.next = Nones]
    ELSE [p EXCEPT !.pos = p.pos + 1, !.next = to_cuda(Yielded(p))]

\* lines 19-25
Construct(loader, prefetch) ==
    LET p == [pc |-> "built", batches |-> loader, pos |-> 0, prefetch |-> prefetch,
              next |-> <<Unset, Unset, Unset, Unset>>, out |-> <<>>]
    IN  IF prefetch THEN preload(p) ELSE p

\* the tuple returned is read after the preload of line 81
NextAfterPreload(p) ==
    [preload(p) EXCEPT !.out = Append(p.out, preload(p).next)]

\* lines 59-81 and 92
NextPrefetched(p) ==
    [preload(p) EXCEPT !.out = Append(p.out, p.next)]

\* lines 83-92
NextDirect(p) ==
    IF Exhausted(p) THEN [p EXCEPT !.out = Append(p.out, Nones)]
    ELSE [p EXCEPT !.pos = p.pos + 1, !.out = Append(p.out, to_cuda(Yielded(p)))]

\* next() may be called again
CanCall(p) == p.pc = "built" /\ Len(p.out) < Len(p.batches) + MaxExtraCalls

\* next() with prefetch=True
CallNextPrefetched ==
    /\ CanCall(prefetcher)
    /\ prefetcher.prefetch
    /\ prefetcher' = NextPrefetched(prefetcher)
    /\ UNCHANGED <<frame, main, workers>>

\* next() with prefetch=False
CallNextDirect ==
    /\ CanCall(prefetcher)
    /\ ~prefetcher.prefetch
    /\ prefetcher' = NextDirect(prefetcher)
    /\ UNCHANGED <<frame, main, workers>>

BatchIds == {1, 2, 3}

Batches == {Batch(id, strong) : id \in BatchIds, strong \in BOOLEAN}

InitPrefetcher ==
    /\ prefetcher \in {Construct(loader, prefetch) :
                          loader \in SeqsUpTo(Batches, MaxBatches),
                          prefetch \in BOOLEAN}
    /\ frame = EmptySlot
    /\ main = MainIdle
    /\ workers = <<>>

NextPrefetcher ==
    \/ CallNextPrefetched
    \/ CallNextDirect

SpecPrefetcher == InitPrefetcher /\ [][NextPrefetcher]_vars

\* C23: over a finite loader of n batches, with and without prefetching, the
\* k-th call of next() returns the k-th batch of the loader, on the device,
\* for k <= n, and every later call returns (None, None, None, None); each
\* call returns, adding one tuple to what was returned before.  (The
\* StopIteration of the exhausted loader is caught at lines 30 and 87, so
\* next() has no raising outcome.)
C23_BatchesInOrder ==
    /\ [](\A k \in 1..Len(prefetcher.out) :
              prefetcher.out[k] =
                  IF k <= Len(prefetcher.batches)
                  THEN to_cuda(prefetcher.batches[k]) ELSE Nones)
    /\ [][/\ Len(prefetcher'.out) = Len(prefetcher.out) + 1
          /\ SubSeq(prefetcher'.out, 1, Len(prefetcher.out)) = prefetcher.out
          /\ prefetcher'.batches = prefetcher.batches]_vars

\* a prefetching run over three different batches, one without a strong
\* augmentation, called twice more after the third
C23_Witness ==
    /\ prefetcher.prefetch
    /\ Len(prefetcher.batches) = 3
    /\ prefetcher.batches[1][1].id = 2
    /\ prefetcher.batches[2][1].id = 1
    /\ prefetcher.batches[3][1].id = 3
    /\ prefetcher.batches[2][4] = None
    /\ Len(prefetcher.out) = 5
    /\ prefetcher.out[2] = to_cuda(prefetcher.batches[2])
    /\ prefetcher.out[4] = Nones
    /\ prefetcher.out[5] = Nones

====
